---- MODULE Spec2Model ----
(***************************************************************************)
(* Model of app/main.py of powergamer-backend: the scrape / collect        *)
(* pipeline (TibiaTracker.scrape_page, scrape_all_pages_async,             *)
(* daily_scraping_job, manual_scrape) and the persistence engine           *)
(* (save_daily_snapshot, calculate_daily_gains) over the two SQLite        *)
(* tables player_snapshots and daily_gains.                                *)
(*                                                                         *)
(* A table is a bag (multiset) of rows: the rowid and the timestamp        *)
(* columns are left out, so two rows that agree on every modelled column   *)
(* are two copies of one element.  The UNIQUE(name, date) constraint is    *)
(* not built into the representation; whether it holds depends on how the  *)
(* statements of the code are modelled.                                    *)
(***************************************************************************)
EXTENDS Integers, Sequences, FiniteSets, Bags, TLC

VARIABLES
    today,        \* datetime.now().date(), as a day number
    snapshots,    \* table player_snapshots
    gains,        \* table daily_gains
    pc,           \* pc[r]: where job r is
    page,         \* page[r]: loop variable of scrape_all_pages_async
    all_players,  \* all_players[r]: the list the collector accumulates
    slept,        \* slept[r]: seconds of asyncio.sleep(2) that have elapsed
    results,      \* history: results[r][i] is the i-th request of job r and what it met
    last,         \* history: the latest call of save_daily_snapshot / calculate_daily_gains
    outcome,      \* history: outcome[r] is how the two storage stages of job r went
    parse         \* one call of scrape_page on a fetched document: soup, loop position, players

vars == <<today, snapshots, gains, pc, page, all_players, slept, results, last, outcome, parse>>

----------------------------------------------------------------------------
(* Bounds of the model *)

\* the clock of SpecGains runs over days 1..MaxDay
MaxDay == 3
\* the clocks of SpecSave and SpecNight run over days 1..MaxSaveDay
MaxSaveDay == 2
\* longest list handed to save_daily_snapshot when it is called directly
MaxLen == 2
\* job slots: how many pipeline runs may exist at the same time
MaxRuns == 2
\* most <tr> elements in the ranking table of a parsed document
MaxRows == 3

(* Program constants *)

\* daily_scraping_job: scrape_all_pages_async(5)
TotalPages == 5
\* scrape_all_pages_async: await asyncio.sleep(2)
SleepSeconds == 2

----------------------------------------------------------------------------
(* Values *)

\* SQL NULL, as the LEFT JOIN yields it for a missing right-hand row
NULL == -1

\* Player objects scrape_page can build (it keeps a row only if name is
\* non-empty, rank > 0 and level > 0; experience may be 0)
Player(rank, name, level, experience, vocation) ==
    [rank |-> rank, name |-> name, level |-> level,
     experience |-> experience, vocation |-> vocation]

Ana1 == Player(1, "Ana", 1, 0, "Knight")
Ana2 == Player(2, "Ana", 2, 2, "Elite Knight")
Bob1 == Player(2, "Bob", 1, 1, "Druid")

Names == {"Ana", "Bob"}

Max(a, b) == IF a >= b THEN a ELSE b

\* lists over S of length at most n
RECURSIVE SeqsUpTo(_, _)
SeqsUpTo(S, n) ==
    IF n = 0 THEN {<<>>}
    ELSE LET shorter == SeqsUpTo(S, n - 1)
         IN  shorter \cup {Append(s, x) : s \in {t \in shorter : Len(t) = n - 1}, x \in S}

----------------------------------------------------------------------------
(* Tables *)

\* the rows of table T that are on key (name, date)
RowsOnKey(T, name, date) == {r \in BagToSet(T) : r.name = name /\ r.date = date}

\* how many rows table T holds on key (name, date)
RECURSIVE SumCopies(_, _)
SumCopies(T, S) ==
    IF S = {} THEN 0
    ELSE LET r == CHOOSE x \in S : TRUE
         IN  CopiesIn(r, T) + SumCopies(T, S \ {r})

CountOnKey(T, name, date) == SumCopies(T, RowsOnKey(T, name, date))

\* table T without the rows in set S
DeleteRows(T, S) == [r \in (BagToSet(T) \ S) |-> T[r]]

\* a table declared without UNIQUE(name, date): no row is ever in conflict
NoConflicts(T, row) == {}

\* UNIQUE(name, date): the rows of T a new row is in conflict with
Conflicts(T, row) == RowsOnKey(T, row.name, row.date)

\* INSERT OR IGNORE: a row in conflict is dropped, the table keeps its own
InsertOrIgnore(T, row) ==
    IF Conflicts(T, row) = {} THEN T (+) SetToBag({row}) ELSE T

\* plain INSERT: one more row, whatever the table holds
PlainInsert(T, row) == T (+) SetToBag({row})

\* INSERT OR REPLACE: the rows in conflict with the new one are deleted,
\* then the new row is inserted
InsertOrReplace(T, row) == DeleteRows(T, Conflicts(T, row)) (+) SetToBag({row})

----------------------------------------------------------------------------
(* save_daily_snapshot *)

SnapshotRow(player, date) ==
    [name |-> player.name, level |-> player.level, experience |-> player.experience,
     vocation |-> player.vocation, rank_position |-> player.rank, date |-> date]

\* a loop that gives up at the first statement that fails
RECURSIVE SaveLoopUntilFailure(_, _, _, _, _)
SaveLoopUntilFailure(T, date, players, failed, i) ==
    IF i > Len(players) \/ i \in failed THEN T
    ELSE SaveLoopUntilFailure(InsertOrReplace(T, SnapshotRow(players[i], date)),
                              date, players, failed, i + 1)

\* the loop over players: row i is skipped when its execute raised (i \in failed)
RECURSIVE SaveLoop(_, _, _, _, _)
SaveLoop(T, date, players, failed, i) ==
    IF i > Len(players) THEN T
    ELSE SaveLoop(IF i \in failed THEN T
                  ELSE InsertOrReplace(T, SnapshotRow(players[i], date)),
                  date, players, failed, i + 1)

\* fault: "none"; "open" (sqlite3.connect raised); "commit" (conn.commit
\* raised, get_db_connection rolls back).  Both are logged and swallowed,
\* and both leave the table as it was, whichever rows had failed before.
StorageFaults == {"none", "open", "commit"}

SaveResult(T, date, players, failed, fault) ==
    IF players = <<>> \/ fault # "none" THEN T
    ELSE SaveLoop(T, date, players, failed, 1)

\* saved_count after the loop: one more for every statement that succeeded
RECURSIVE SavedCount(_, _, _)
SavedCount(players, failed, i) ==
    IF i > Len(players) THEN 0
    ELSE (IF i \in failed THEN 0 ELSE 1) + SavedCount(players, failed, i + 1)

\* the count the call logs after its commit; a call that returned early or
\* ended in the outer except logs none (0 here)
SavedCountLogged(players, failed, fault) ==
    IF players = <<>> \/ fault # "none" THEN 0
    ELSE SavedCount(players, failed, 1)

\* did some executed statement hit a row that was already there
RECURSIVE SaveHits(_, _, _, _, _)
SaveHits(T, date, players, failed, i) ==
    IF i > Len(players) THEN FALSE
    ELSE IF i \in failed THEN SaveHits(T, date, players, failed, i + 1)
    ELSE \/ RowsOnKey(T, players[i].name, date) # {}
         \/ SaveHits(InsertOrReplace(T, SnapshotRow(players[i], date)),
                     date, players, failed, i + 1)

\* the record kept of a call: error says whether the call ended in the
\* outer except (fault # "none")
NoCall == [op |-> "none", date |-> 0, players |-> <<>>, failed |-> {},
           error |-> FALSE, again |-> FALSE, hit |-> FALSE, saved_count |-> 0]

save_daily_snapshot(players, failed, fault) ==
    /\ snapshots' = SaveResult(snapshots, today, players, failed, fault)
    /\ last' = [op |-> "save", date |-> today, players |-> players, failed |-> failed,
                error |-> fault # "none",
                again |-> /\ last.op = "save" /\ last.date = today
                          /\ last.players = players /\ last.failed = failed
                          /\ last.error = (fault # "none"),
                hit |-> /\ players # <<>> /\ fault = "none"
                        /\ SaveHits(snapshots, today, players, failed, 1),
                saved_count |-> SavedCountLogged(players, failed, fault)]

----------------------------------------------------------------------------
(* calculate_daily_gains *)

\* SELECT ... FROM player_snapshots t LEFT JOIN player_snapshots y
\*   ON t.name = y.name AND y.date = yesterday WHERE t.date = today
JoinRow(t, y_level, y_exp) ==
    [name |-> t.name, today_level |-> t.level, today_exp |-> t.experience,
     yesterday_level |-> y_level, yesterday_exp |-> y_exp]

\* a join on the latest days instead of on yesterday alone
EarlierRows(T, name, yesterday) ==
    {r \in BagToSet(T) : r.name = name /\ r.date <= yesterday}

\* ON t.name = y.name AND y.date = yesterday
YesterdayRows(T, name, yesterday) == RowsOnKey(T, name, yesterday)

LeftJoin(T, yesterday, date) ==
    LET ts == {t \in BagToSet(T) : t.date = date}
    IN  UNION {IF YesterdayRows(T, t.name, yesterday) = {}
               THEN {JoinRow(t, NULL, NULL)}
               ELSE {JoinRow(t, y.level, y.experience) :
                         y \in YesterdayRows(T, t.name, yesterday)} : t \in ts}

\* Python's  x or d : d when x is None or 0
PyOr(x, d) == IF x = NULL \/ x = 0 THEN d ELSE x

\* the difference as it is, negative when the player fell back
NoClamp(delta) == delta

\* max(0, ...)
Clamp(delta) == Max(0, delta)

GainsRow(row, date) ==
    LET yesterday_level == PyOr(row.yesterday_level, row.today_level)
        yesterday_exp   == PyOr(row.yesterday_exp, row.today_exp)
    IN  [name |-> row.name, date |-> date,
         exp_gained |-> Clamp(row.today_exp - yesterday_exp),
         level_gained |-> Clamp(row.today_level - yesterday_level),
         starting_level |-> yesterday_level, ending_level |-> row.today_level,
         starting_exp |-> yesterday_exp, ending_exp |-> row.today_exp]

\* the loop over the fetched rows; a row whose name is in failed raised and
\* is skipped
RECURSIVE GainsLoop(_, _, _, _)
GainsLoop(G, rows, date, failed) ==
    IF rows = {} THEN G
    ELSE LET row == CHOOSE x \in rows : TRUE
         IN  GainsLoop(IF row.name \in failed THEN G
                       ELSE InsertOrReplace(G, GainsRow(row, date)),
                       rows \ {row}, date, failed)

GainsResult(G, T, date, failed, fault) ==
    IF fault # "none" THEN G
    ELSE GainsLoop(G, LeftJoin(T, date - 1, date), date, failed)

calculate_daily_gains(failed, fault) ==
    /\ gains' = GainsResult(gains, snapshots, today, failed, fault)
    /\ last' = [op |-> "calc", date |-> today, players |-> <<>>, failed |-> failed,
                error |-> fault # "none", again |-> FALSE, hit |-> FALSE,
                saved_count |-> 0]

----------------------------------------------------------------------------
(* The clock *)

Tick(maxDay) ==
    /\ today < maxDay
    /\ today' = today + 1

----------------------------------------------------------------------------
(* Initial state: init_database on a fresh file, no job scheduled *)

Runs == 1 .. MaxRuns

\* saved, computed: "no" (stage not reached), "ok", "partial" (some row
\* failed), "error" (the stage ended in its outer except)
NoOutcome == [saved |-> "no", saveDate |-> 0, computed |-> "no", gainsDate |-> 0]

StageResult(failed, fault) ==
    IF fault # "none" THEN "error" ELSE IF failed # {} THEN "partial" ELSE "ok"

runVars == <<pc, page, all_players, slept, results, outcome>>

\* no document is being parsed
NoParse == [pc |-> "idle", soup |-> [table |-> FALSE, trs |-> <<>>], i |-> 0, players |-> <<>>]

Init ==
    /\ today = 1
    /\ snapshots = EmptyBag
    /\ gains = EmptyBag
    /\ pc = [r \in Runs |-> "idle"]
    /\ page = [r \in Runs |-> 0]
    /\ all_players = [r \in Runs |-> <<>>]
    /\ slept = [r \in Runs |-> 0]
    /\ results = [r \in Runs |-> <<>>]
    /\ last = NoCall
    /\ outcome = [r \in Runs |-> NoOutcome]
    /\ parse = NoParse

----------------------------------------------------------------------------
(* The storage engine on its own: save_daily_snapshot and                  *)
(* calculate_daily_gains called directly                                   *)

\* lists of distinct entries of S, of length at most n
DistinctLists(S, n) == {s \in SeqsUpTo(S, n) : \A i, j \in 1 .. Len(s) : s[i] = s[j] => i = j}

\* save_daily_snapshot(players) with the storage behaving in any way
SaveCall(lists) ==
    \E players \in lists, fault \in StorageFaults :
      \E failed \in SUBSET (1 .. Len(players)) :
        /\ fault # "none" => failed = {}
        /\ save_daily_snapshot(players, failed, fault)
        /\ UNCHANGED <<parse, today, gains, runVars>>

\* save_daily_snapshot(players) with the storage working
SaveCallOk(lists) ==
    \E players \in lists :
        /\ save_daily_snapshot(players, {}, "none")
        /\ UNCHANGED <<parse, today, gains, runVars>>

\* the names of the rows the SELECT of calculate_daily_gains fetches
FetchedNames(T, date) == {t.name : t \in {x \in BagToSet(T) : x.date = date}}

\* calculate_daily_gains() with the storage behaving in any way
GainsCall ==
    \E fault \in StorageFaults, failed \in SUBSET FetchedNames(snapshots, today) :
        /\ fault # "none" => failed = {}
        /\ calculate_daily_gains(failed, fault)
        /\ UNCHANGED <<parse, today, snapshots, runVars>>

ClockTick(maxDay) ==
    /\ Tick(maxDay)
    /\ UNCHANGED <<parse, snapshots, gains, last, runVars>>

\* SpecSave: any sequence of saves, over MaxSaveDay days
SaveLists == DistinctLists({Ana1, Ana2, Bob1}, MaxLen)

SaveNext == SaveCall(SaveLists) \/ ClockTick(MaxSaveDay)

SpecSave == Init /\ [][SaveNext]_vars

\* SpecGains: saves of short rankings and gains computations, over
\* MaxDay days
GainsLists == {<<Ana1>>, <<Ana2, Bob1>>}

GainsNext == SaveCallOk(GainsLists) \/ GainsCall \/ ClockTick(MaxDay)

SpecGains == Init /\ [][GainsNext]_vars

----------------------------------------------------------------------------
(* The pipeline: manual_scrape, daily_scraping_job, scrape_all_pages_async *)

\* What one request of scrape_page can meet: ok says whether the page was
\* fetched and parsed to its end, players are the rows parsed by then.
PageOk(players) == [ok |-> TRUE, players |-> players]
PageFailed(players) == [ok |-> FALSE, players |-> players]

\* scrape_page handing back what it parsed so far when the request failed
scrape_page_partial(out) == out.players

\* scrape_page: the parsed players, or [] from either except branch
scrape_page(out) == IF out.ok THEN out.players ELSE <<>>

\* requests.get and the storage calls are synchronous: while a job is in one
\* of them the event loop runs nothing else
LoopFree == \A q \in Runs : pc[q] \notin {"fetching", "gains"}

\* asyncio.sleep skipped after a page that failed
AwakeUnlessFailed(r) == slept[r] = SleepSeconds \/ ~results[r][page[r]].ok

\* await asyncio.sleep(2) has returned
Awake(r) == slept[r] = SleepSeconds

\* POST /scrape/manual: the job is added as a background task
manual_scrape(r) ==
    /\ LoopFree
    /\ pc[r] \in {"idle", "done"}
    /\ pc' = [pc EXCEPT ![r] = "queued"]
    /\ page' = [page EXCEPT ![r] = 0]
    /\ all_players' = [all_players EXCEPT ![r] = <<>>]
    /\ slept' = [slept EXCEPT ![r] = 0]
    /\ results' = [results EXCEPT ![r] = <<>>]
    /\ outcome' = [outcome EXCEPT ![r] = NoOutcome]
    /\ UNCHANGED <<parse, today, snapshots, gains, last>>

\* daily_scraping_job begins: scrape_all_pages_async(5) sends the request
\* for page 1
JobStart(r) ==
    /\ LoopFree
    /\ pc[r] = "queued"
    /\ pc' = [pc EXCEPT ![r] = "fetching"]
    /\ page' = [page EXCEPT ![r] = 1]
    /\ UNCHANGED <<parse, today, snapshots, gains, all_players, slept, results, last, outcome>>

\* scrape_page returns; all_players.extend(players); the sleep begins
ScrapePageReturn(r, out) ==
    /\ pc[r] = "fetching"
    /\ all_players' = [all_players EXCEPT ![r] = @ \o scrape_page(out)]
    /\ results' = [results EXCEPT ![r] =
                       Append(@, [page |-> page[r], ok |-> out.ok, players |-> out.players])]
    /\ slept' = [slept EXCEPT ![r] = 0]
    /\ pc' = [pc EXCEPT ![r] = "sleeping"]
    /\ UNCHANGED <<parse, today, snapshots, gains, page, last, outcome>>

\* one second passes
Elapse ==
    /\ \E r \in Runs : pc[r] = "sleeping" /\ slept[r] < SleepSeconds
    /\ slept' = [r \in Runs |->
                    IF pc[r] = "sleeping" /\ slept[r] < SleepSeconds
                    THEN slept[r] + 1 ELSE slept[r]]
    /\ UNCHANGED <<parse, today, snapshots, gains, pc, page, all_players, results, last, outcome>>

\* the sleep is over and the loop goes on to the next page
WakeNext(r) ==
    /\ LoopFree
    /\ pc[r] = "sleeping" /\ Awake(r)
    /\ page[r] < TotalPages
    /\ page' = [page EXCEPT ![r] = @ + 1]
    /\ pc' = [pc EXCEPT ![r] = "fetching"]
    /\ UNCHANGED <<parse, today, snapshots, gains, all_players, slept, results, last, outcome>>

\* the sleep after the last page is over; nothing was collected
WakeEmpty(r) ==
    /\ LoopFree
    /\ pc[r] = "sleeping" /\ Awake(r)
    /\ page[r] = TotalPages
    /\ all_players[r] = <<>>
    /\ pc' = [pc EXCEPT ![r] = "done"]
    /\ UNCHANGED <<parse, today, snapshots, gains, page, all_players, slept, results, last, outcome>>

\* the row failures the storage is let to produce in a pipeline save
RowFailures(players) == {{}, {1}}

\* the sleep after the last page is over; tracker.save_daily_snapshot(players)
WakeSave(r) ==
    /\ LoopFree
    /\ pc[r] = "sleeping" /\ Awake(r)
    /\ page[r] = TotalPages
    /\ all_players[r] # <<>>
    /\ \E fault \in StorageFaults, failed \in RowFailures(all_players[r]) :
          /\ fault # "none" => failed = {}
          /\ save_daily_snapshot(all_players[r], failed, fault)
          /\ outcome' = [outcome EXCEPT ![r].saved = StageResult(failed, fault),
                                         ![r].saveDate = today]
    /\ pc' = [pc EXCEPT ![r] = "gains"]
    /\ UNCHANGED <<parse, today, gains, page, all_players, slept, results>>

\* tracker.calculate_daily_gains(), the statement after the save
GainsStage(r) ==
    /\ pc[r] = "gains"
    /\ \E fault \in StorageFaults,
          failed \in {{}} \cup {{n} : n \in FetchedNames(snapshots, today)} :
          /\ fault # "none" => failed = {}
          /\ calculate_daily_gains(failed, fault)
          /\ outcome' = [outcome EXCEPT ![r].computed = StageResult(failed, fault),
                                         ![r].gainsDate = today]
    /\ pc' = [pc EXCEPT ![r] = "done"]
    /\ UNCHANGED <<parse, today, snapshots, page, all_players, slept, results>>

\* Spec: the service with MaxRuns job slots within one day, the remote page
\* either failing or listing Ana
ServicePages == {PageOk(<<Ana1>>), PageFailed(<<>>)}

Next ==
    \/ \E r \in Runs : manual_scrape(r)
    \/ \E r \in Runs : JobStart(r)
    \/ \E r \in Runs, out \in ServicePages : ScrapePageReturn(r, out)
    \/ Elapse
    \/ \E r \in Runs : WakeNext(r)
    \/ \E r \in Runs : WakeEmpty(r)
    \/ \E r \in Runs : WakeSave(r)
    \/ \E r \in Runs : GainsStage(r)

Spec == Init /\ [][Next]_vars

\* SpecRun: one job after the other within one day, the remote pages
\* varying
RunPages == {PageOk(<<Ana1>>), PageOk(<<Ana2, Bob1>>), PageFailed(<<Ana1>>)}

RunNext ==
    \/ manual_scrape(1)
    \/ JobStart(1)
    \/ \E out \in RunPages : ScrapePageReturn(1, out)
    \/ Elapse
    \/ WakeNext(1)
    \/ WakeEmpty(1)
    \/ WakeSave(1)
    \/ GainsStage(1)

SpecRun == Init /\ [][RunNext]_vars

\* SpecNight: one job after the other while the clock runs over
\* MaxSaveDay days; datetime.now() may pass midnight between any two steps
NightNext ==
    \/ manual_scrape(1)
    \/ JobStart(1)
    \/ \E out \in ServicePages : ScrapePageReturn(1, out)
    \/ Elapse
    \/ WakeNext(1)
    \/ WakeEmpty(1)
    \/ WakeSave(1)
    \/ GainsStage(1)
    \/ ClockTick(MaxSaveDay)

SpecNight == Init /\ [][NightNext]_vars

----------------------------------------------------------------------------
(* scrape_page on a fetched document: the row loop *)

\* A text is the sequence of its characters, as get_text(strip=True) gives it.
Digits == {"0", "1", "2", "3", "4", "5", "6", "7", "8", "9"}

DigitValue(c) ==
    CASE c = "0" -> 0 [] c = "1" -> 1 [] c = "2" -> 2 [] c = "3" -> 3
      [] c = "4" -> 4 [] c = "5" -> 5 [] c = "6" -> 6 [] c = "7" -> 7
      [] c = "8" -> 8 [] c = "9" -> 9

\* str.isdigit(): not empty and digits only
IsDigit(text) == text # <<>> /\ \A k \in 1 .. Len(text) : text[k] \in Digits

\* int(text) of a text of digits
RECURSIVE ToInt(_)
ToInt(text) ==
    IF text = <<>> THEN 0
    ELSE 10 * ToInt(SubSeq(text, 1, Len(text) - 1)) + DigitValue(text[Len(text)])

IsDot(c) == c = "."
IsDigitChar(c) == c \in Digits
NotDot(c) == ~IsDot(c)

\* text.replace('.', '')
RemoveDots(text) == SelectSeq(text, NotDot)

\* re.sub(r'[^\d]', '', text)
OnlyDigits(text) == SelectSeq(text, IsDigitChar)

\* a <td>: its text, and the text of the <a> in it when it has one
Td(text) == [text |-> text, link |-> FALSE, a |-> <<>>]
TdLink(text, a) == [text |-> text, link |-> TRUE, a |-> a]

\* cells[0]: rank = int(rank_text) if rank_text.isdigit() else 0
RankOf(cells) ==
    LET rank_text == RemoveDots(cells[1].text)
    IN  IF IsDigit(rank_text) THEN ToInt(rank_text) ELSE 0

\* cells[2]: the text of the link, else the text of the cell
NameOf(cells) == IF cells[3].link THEN cells[3].a ELSE cells[3].text

\* cells[3]
VocationOf(cells) == cells[4].text

\* cells[4]: level = int(level_text) if level_text.isdigit() else 0
LevelOf(cells) ==
    IF IsDigit(cells[5].text) THEN ToInt(cells[5].text) ELSE 0

\* cells[5]: int(re.sub(...)) raises ValueError on a text without a digit
ExperienceRaises(cells) ==
    cells[6].text # <<>> /\ OnlyDigits(cells[6].text) = <<>>

\* experience = int(re.sub(r'[^\d]', '', exp_text)) if exp_text else 0
ExperienceOf(cells) ==
    IF cells[6].text # <<>> THEN ToInt(OnlyDigits(cells[6].text)) ELSE 0

\* the body of the row loop: what one <tr> adds to players
scrape_row(cells) ==
    IF Len(cells) < 6 THEN <<>>
    ELSE IF ExperienceRaises(cells) THEN <<>>
    ELSE IF NameOf(cells) # <<>> /\ RankOf(cells) > 0 /\ LevelOf(cells) > 0
         THEN <<Player(RankOf(cells), NameOf(cells), LevelOf(cells),
                       ExperienceOf(cells), VocationOf(cells))>>
         ELSE <<>>

\* soup.find('table', class_='Table3'); rows = table.find_all('tr')[1:]
ParseBegin ==
    /\ parse.pc = "start"
    /\ parse' = IF parse.soup.table
                THEN [parse EXCEPT !.pc = "rows", !.i = 2, !.players = <<>>]
                ELSE [parse EXCEPT !.pc = "done", !.players = <<>>]
    /\ UNCHANGED <<today, snapshots, gains, last, runVars>>

\* one pass of  for row in rows
ParseRow ==
    /\ parse.pc = "rows"
    /\ parse.i <= Len(parse.soup.trs)
    /\ parse' = [parse EXCEPT !.players = @ \o scrape_row(parse.soup.trs[parse.i]),
                              !.i = @ + 1]
    /\ UNCHANGED <<today, snapshots, gains, last, runVars>>

\* return players
ParseReturn ==
    /\ parse.pc = "rows"
    /\ parse.i > Len(parse.soup.trs)
    /\ parse' = [parse EXCEPT !.pc = "done"]
    /\ UNCHANGED <<today, snapshots, gains, last, runVars>>

\* the <tr> elements the documents are made of
OutfitTd == Td(<<>>)
HeaderTr == <<>>
RowAna == <<Td(<<"1", ".">>), OutfitTd, TdLink(<<"A", "n", "a">>, <<"A", "n", "a">>),
            Td(<<"K">>), Td(<<"1", "2">>), Td(<<"1", ".", "2", "3", "4", ".", "5", "6", "7">>)>>
RowBob == <<Td(<<"2">>), OutfitTd, Td(<<"B", "o", "b">>),
            Td(<<"D">>), Td(<<"9">>), Td(<<>>), Td(<<"x">>)>>
RowShort == <<Td(<<"3">>), OutfitTd, Td(<<"C", "y">>), Td(<<"K">>), Td(<<"5">>)>>
RowBadRank == <<Td(<<"x">>), OutfitTd, Td(<<"C", "y">>), Td(<<"K">>), Td(<<"5">>), Td(<<"6">>)>>
RowBadLevel == <<Td(<<"3">>), OutfitTd, Td(<<"C", "y">>), Td(<<"K">>), Td(<<"5", "x">>), Td(<<"6">>)>>
RowNoName == <<Td(<<"3">>), OutfitTd, TdLink(<<"C", "y">>, <<>>), Td(<<"K">>), Td(<<"5">>), Td(<<"6">>)>>
RowNoExperience == <<Td(<<"3">>), OutfitTd, Td(<<"C", "y">>), Td(<<"K">>), Td(<<"5">>), Td(<<"-">>)>>

RowKinds == {HeaderTr, RowAna, RowBob, RowShort, RowBadRank, RowBadLevel,
             RowNoName, RowNoExperience}

\* the documents: without the ranking table, or with one of up to MaxRows rows
Soups == {[table |-> FALSE, trs |-> <<>>]}
         \cup {[table |-> TRUE, trs |-> t] : t \in SeqsUpTo(RowKinds, MaxRows)}

\* SpecParse: scrape_page parses one document, any of Soups
InitParse ==
    /\ today = 1
    /\ snapshots = EmptyBag
    /\ gains = EmptyBag
    /\ pc = [r \in Runs |-> "idle"]
    /\ page = [r \in Runs |-> 0]
    /\ all_players = [r \in Runs |-> <<>>]
    /\ slept = [r \in Runs |-> 0]
    /\ results = [r \in Runs |-> <<>>]
    /\ last = NoCall
    /\ outcome = [r \in Runs |-> NoOutcome]
    /\ \E soup \in Soups :
          parse = [pc |-> "start", soup |-> soup, i |-> 0, players |-> <<>>]

ParseNext == ParseBegin \/ ParseRow \/ ParseReturn

SpecParse == InitParse /\ [][ParseNext]_vars

----------------------------------------------------------------------------
(* Properties of the parser (SpecParse) *)

\* the condition of the claim: six columns, a name, rank > 0 and level > 0
Accepted(cells) ==
    /\ Len(cells) >= 6
    /\ NameOf(cells) # <<>> /\ RankOf(cells) > 0 /\ LevelOf(cells) > 0

\* rank, name, level and vocation of the accepted rows among trs[from..],
\* in source order
RECURSIVE AcceptedRows(_, _)
AcceptedRows(trs, from) ==
    IF from > Len(trs) THEN <<>>
    ELSE (IF Accepted(trs[from])
          THEN <<[rank |-> RankOf(trs[from]), name |-> NameOf(trs[from]),
                  level |-> LevelOf(trs[from]), vocation |-> VocationOf(trs[from])]>>
          ELSE <<>>) \o AcceptedRows(trs, from + 1)

\* rank, name, level and vocation of the players returned
Returned(players) ==
    [k \in 1 .. Len(players) |->
        [rank |-> players[k].rank, name |-> players[k].name,
         level |-> players[k].level, vocation |-> players[k].vocation]]

\* C11: the players scrape_page returns for a document with the ranking
\* table are, in source order, exactly the rows after the header that have
\* at least six columns, a non-empty name, rank > 0 and level > 0.
C11_AcceptsExactlyTheValidRows ==
    (parse.pc = "done" /\ parse.soup.table)
    => Returned(parse.players) = AcceptedRows(parse.soup.trs, 2)

----------------------------------------------------------------------------
(* Properties of the triggers (Spec) *)

\* job r has begun and has not reached its end
Active(r) == pc[r] \in {"fetching", "sleeping", "gains"}

\* C1: at most one pipeline run is active at any time.
C1_OneActiveRun == Cardinality({r \in Runs : Active(r)}) <= 1

----------------------------------------------------------------------------
(* Properties of the collector and of the whole run (SpecRun) *)

\* the entries of the requests that succeeded, in the order of the requests
RECURSIVE ConcatOk(_)
ConcatOk(log) ==
    IF log = <<>> THEN <<>>
    ELSE LET n == Len(log)
         IN  ConcatOk(SubSeq(log, 1, n - 1)) \o (IF log[n].ok THEN log[n].players ELSE <<>>)

\* C7: the collector requests pages 1, 2, ... in order, one request per
\* page, all TotalPages of them before it returns; what it has collected is
\* the concatenation, in page order, of the entries of the pages that
\* succeeded, a failed page adding nothing.
C7_CollectsEveryGoodPage ==
    \A r \in Runs :
       /\ all_players[r] = ConcatOk(results[r])
       /\ \A i \in 1 .. Len(results[r]) : results[r][i].page = i
       /\ pc[r] = "fetching" => Len(results[r]) = page[r] - 1
       /\ pc[r] \in {"sleeping", "gains", "done"} => Len(results[r]) = page[r]
       /\ pc[r] \in {"gains", "done"} => page[r] = TotalPages

\* a run has ended in which page 3 alone failed, after parsing a row
C7_Witness ==
    /\ pc[1] = "done" /\ Len(results[1]) = TotalPages
    /\ \A i \in 1 .. TotalPages : results[1][i].ok <=> i # 3
    /\ results[1][3].players # <<>>
    /\ all_players[1] = results[1][1].players \o results[1][2].players
                           \o results[1][4].players \o results[1][5].players

\* C8: when a run requests a page after its first, the request before it
\* has returned and the full SleepSeconds have passed since, whether that
\* request succeeded or failed; a run has one request in flight at most.
C8_FullDelayBetweenRequests ==
    \A r \in Runs :
       (pc[r] = "fetching" /\ page[r] > 1)
       => /\ slept[r] = SleepSeconds
          /\ Len(results[r]) = page[r] - 1

\* the request for a page is in flight after the page before it failed
C8_Witness ==
    /\ pc[1] = "fetching" /\ page[1] = 4
    /\ ~results[1][3].ok /\ results[1][2].ok
    /\ slept[1] = SleepSeconds

\* the part of table T on date D, and the part before date D
OnDate(T, D) == [r \in {x \in BagToSet(T) : x.date = D} |-> T[r]]
Before(T, D) == [r \in {x \in BagToSet(T) : x.date < D} |-> T[r]]

\* the part of table T on date D for the players of a list
OnDateOf(T, D, players) ==
    [r \in {x \in BagToSet(T) :
               x.date = D /\ \E i \in 1 .. Len(players) : players[i].name = x.name} |-> T[r]]

\* what one run on date D with these players leaves when it is the only
\* run of the day
SingleRunSnapshots(D, players) ==
    SaveResult(Before(snapshots, D), D, players, {}, "none")
SingleRunGains(D, players) ==
    GainsResult(Before(gains, D), SingleRunSnapshots(D, players), D, {}, "none")

\* job r has ended, both stages ran on the same date and wrote every row
CleanRun(r) ==
    /\ pc[r] = "done"
    /\ outcome[r].saved = "ok" /\ outcome[r].computed = "ok"
    /\ outcome[r].saveDate = outcome[r].gainsDate

C10_StorageErrorAbortsRun ==
    \A r \in Runs : outcome[r].saved = "error" => outcome[r].computed = "no"

----------------------------------------------------------------------------
(* The two readings of the clock in one run (SpecNight) *)

\* job r has ended and neither stage met a failure
CompletedRun(r) ==
    /\ pc[r] = "done"
    /\ outcome[r].saved = "ok" /\ outcome[r].computed = "ok"

\* gains holds a row on (name, date) with these ending values
HasGainsRecord(name, date, level, experience) ==
    \E g \in BagToSet(gains) :
        /\ g.name = name /\ g.date = date
        /\ g.ending_level = level /\ g.ending_exp = experience

\* C13: when a run that saved snapshots has ended without a storage
\* failure, every snapshot row it wrote has a gains row on the same name
\* and date whose ending level and experience are the snapshot's.
C13_EverySavedRowHasItsGains ==
    \A r \in Runs :
       CompletedRun(r) =>
          \A s \in BagToSet(snapshots) :
             (/\ s.date = outcome[r].saveDate
              /\ \E i \in 1 .. Len(all_players[r]) : all_players[r][i].name = s.name)
             => HasGainsRecord(s.name, s.date, s.level, s.experience)

----------------------------------------------------------------------------
(* Properties of save_daily_snapshot (SpecSave) *)

\* the last statement of the latest save that wrote player i's key
LastWriter(players, failed, i) ==
    /\ i \notin failed
    /\ \A j \in (i + 1) .. Len(players) :
           j \in failed \/ players[j].name # players[i].name

\* C2: in every reachable state player_snapshots holds exactly one row on
\* every (name, date) it holds a row on, and after a save that did not end
\* in an error the row of each written key carries the level, experience,
\* vocation and rank of the last entry written on that key.
C2_OneRowPerNameAndDate ==
    /\ \A r \in BagToSet(snapshots) : CountOnKey(snapshots, r.name, r.date) = 1
    /\ (last.op = "save" /\ ~last.error) =>
          \A i \in 1 .. Len(last.players) :
             LastWriter(last.players, last.failed, i) =>
                 CopiesIn(SnapshotRow(last.players[i], last.date), snapshots) = 1

\* a second save on the same date, of a list that names Ana twice, has run
C2_Witness ==
    /\ last.op = "save" /\ last.again /\ last.hit
    /\ ~last.error /\ last.failed = {}
    /\ \E i, j \in 1 .. Len(last.players) :
          i < j /\ last.players[i].name = last.players[j].name
    /\ \E r \in BagToSet(snapshots) : r.date < last.date

\* C3: a save that repeats the save before it (same date, same entries,
\* same rows failing) leaves player_snapshots exactly as it found it.
C3_SaveTwiceIsSaveOnce ==
    [][(last'.op = "save" /\ last'.again) => snapshots' = snapshots]_vars

\* the same two-player list has been saved twice in a row, all rows written
C3_Witness ==
    /\ last.op = "save" /\ last.again
    /\ ~last.error /\ last.failed = {}
    /\ Len(last.players) = 2
    /\ last.players[1].name # last.players[2].name
    /\ \A i \in 1 .. 2 :
          CopiesIn(SnapshotRow(last.players[i], last.date), snapshots) = 1

----------------------------------------------------------------------------
(* Row failures within one save (SpecSave) *)

\* the entries of a call whose statement succeeded
Succeeded(players, failed) == {i \in 1 .. Len(players) : i \notin failed}

\* C12: a save whose storage works attempts every entry whatever happened
\* to the entries before it: the count it logs is the number of entries
\* whose upsert succeeded, and the table holds the row of every such entry
\* that no later successful entry of the same call replaced; a save that
\* ended in a storage error (the one commit, after the loop, did not
\* happen) leaves the table as it was.
C12_RowFailureIsIsolated ==
    [][(last'.op = "save" /\ last'.players # <<>>) =>
         IF last'.error
         THEN snapshots' = snapshots /\ last'.saved_count = 0
         ELSE /\ last'.saved_count
                   = Cardinality(Succeeded(last'.players, last'.failed))
              /\ \A i \in Succeeded(last'.players, last'.failed) :
                     LastWriter(last'.players, last'.failed, i)
                     => CopiesIn(SnapshotRow(last'.players[i], last'.date),
                                 snapshots') = 1]_vars

\* a save of two entries whose first statement failed: the second entry is
\* in the table and the count is 1
C12_Witness ==
    /\ last.op = "save" /\ ~last.error
    /\ Len(last.players) = 2 /\ last.failed = {1}
    /\ last.saved_count = 1
    /\ CopiesIn(SnapshotRow(last.players[2], last.date), snapshots) = 1

----------------------------------------------------------------------------
(* Properties of calculate_daily_gains (SpecGains) *)

GainsOnKey(name, date) == {g \in BagToSet(gains) : g.name = name /\ g.date = date}

\* the latest call was a gains computation that reached its commit
ComputedOn(date) == last.op = "calc" /\ ~last.error /\ last.date = date

\* C4: after compute(D), every player with a snapshot on D and on D-1 has a
\* gains record on D that starts at the D-1 level and experience and ends
\* at the D level and experience.
C4_StartsAtYesterday ==
    \A t, y \in BagToSet(snapshots) :
       (/\ ComputedOn(t.date) /\ y.date = t.date - 1
        /\ y.name = t.name /\ t.name \notin last.failed)
       => \E g \in GainsOnKey(t.name, t.date) :
             /\ g.starting_level = y.level /\ g.starting_exp = y.experience
             /\ g.ending_level = t.level /\ g.ending_exp = t.experience

\* C5: every gains record has exp_gained = max(0, ending_exp - starting_exp)
\* and level_gained = max(0, ending_level - starting_level); neither is
\* ever negative.
C5_GainsAreClamped ==
    \A g \in BagToSet(gains) :
       /\ g.exp_gained = (IF g.ending_exp > g.starting_exp
                          THEN g.ending_exp - g.starting_exp ELSE 0)
       /\ g.level_gained = (IF g.ending_level > g.starting_level
                            THEN g.ending_level - g.starting_level ELSE 0)
       /\ g.exp_gained >= 0 /\ g.level_gained >= 0

\* a record of a player who fell back in level and in experience
C5_Witness ==
    \E g \in BagToSet(gains) :
       /\ g.ending_exp < g.starting_exp /\ g.ending_level < g.starting_level
       /\ g.exp_gained = 0 /\ g.level_gained = 0

\* the snapshot rows of a player on date D that have no row on D-1
WithoutYesterday(date) ==
    {t \in BagToSet(snapshots) :
        /\ t.date = date
        /\ ~ \E y \in BagToSet(snapshots) : y.name = t.name /\ y.date = date - 1}

\* C6: after compute(D), a player with a snapshot on D and none on D-1 has
\* exactly one gains record on D; it starts and ends at the D level and
\* experience and both gains are 0, whatever older rows the player has.
C6_BaselineWithoutYesterday ==
    \A t \in BagToSet(snapshots) :
       (/\ ComputedOn(t.date) /\ t \in WithoutYesterday(t.date)
        /\ t.name \notin last.failed)
       => /\ CountOnKey(gains, t.name, t.date) = 1
          /\ \A g \in GainsOnKey(t.name, t.date) :
                /\ g.starting_level = t.level /\ g.ending_level = t.level
                /\ g.starting_exp = t.experience /\ g.ending_exp = t.experience
                /\ g.exp_gained = 0 /\ g.level_gained = 0

\* compute(D) has run for a player seen on D and on D-2 but not on D-1,
\* whose D-2 values differ from the D values
C6_Witness ==
    \E t \in WithoutYesterday(last.date) :
       /\ ComputedOn(t.date) /\ t.name \notin last.failed
       /\ GainsOnKey(t.name, t.date) # {}
       /\ \E o \in BagToSet(snapshots) :
             /\ o.name = t.name /\ o.date = t.date - 2
             /\ o.level < t.level /\ o.experience < t.experience

====
